---- MODULE Spec2Model ----
(***************************************************************************)
(* Model of the cut detector of AutoCorteMP4 (src/analyzer).               *)
(*                                                                         *)
(* Real numbers are fixed-point integers in thousandths ("milli"):         *)
(* magnitudes, thresholds, confidences, histogram differences and SSIM     *)
(* scores are value * 1000, angles are milli-degrees, durations are        *)
(* milliseconds.  A division is an integer division, so a result is the    *)
(* float result rounded down to the next thousandth.  The 1e-6 that        *)
(* is_scene_cut adds to a denominator is below this resolution.            *)
(*                                                                         *)
(* The frame source (cv2.VideoCapture) is a finite stream: a read either   *)
(* delivers the next frame or fails, and once a read has failed every      *)
(* later read fails too (end of file).  What the image routines compute    *)
(* from a pair of frames (the statistics of the optical flow, the          *)
(* histogram difference, the SSIM score) is an input drawn from Samples.   *)
(***************************************************************************)
EXTENDS Integers, Sequences, FiniteSets, TLC

\* Most reads the model lets the source answer with a frame.
MaxFrames == 5

Min(a, b) == IF a < b THEN a ELSE b

Abs(a) == IF a < 0 THEN -a ELSE a

RECURSIVE Sum(_)
Sum(s) == IF s = <<>> THEN 0 ELSE Head(s) + Sum(Tail(s))

\* np.mean of a non-empty list
Mean(s) == Sum(s) \div Len(s)

IsPrefix(s, t) == Len(s) <= Len(t) /\ SubSeq(t, 1, Len(s)) = s

(***************************************************************************)
(* optical_flow.py                                                         *)
(***************************************************************************)
NONE == "parado"
RIGHT == "direita"
LEFT == "esquerda"
UP == "cima"
DOWN == "baixo"
UP_RIGHT == "diagonal_cima_direita"
UP_LEFT == "diagonal_cima_esquerda"
DOWN_RIGHT == "diagonal_baixo_direita"
DOWN_LEFT == "diagonal_baixo_esquerda"
ZOOM_IN == "aproximação"
ZOOM_OUT == "afastamento"
ROTATION == "rotação"
MIXED == "misto"

\* A faulty variant of angle_to_direction_8: the boundary of two sectors belongs to
\* the lower one.
angle_to_direction_8_upper_inclusive(angle0) ==
    LET angle == angle0 % 360000 IN
    IF angle <= 22500 \/ angle > 337500 THEN RIGHT
    ELSE IF 22500 < angle /\ angle <= 67500 THEN UP_RIGHT
    ELSE IF 67500 < angle /\ angle <= 112500 THEN UP
    ELSE IF 112500 < angle /\ angle <= 157500 THEN UP_LEFT
    ELSE IF 157500 < angle /\ angle <= 202500 THEN LEFT
    ELSE IF 202500 < angle /\ angle <= 247500 THEN DOWN_LEFT
    ELSE IF 247500 < angle /\ angle <= 292500 THEN DOWN
    ELSE IF 292500 < angle /\ angle <= 337500 THEN DOWN_RIGHT
    ELSE MIXED

\* _angle_to_direction_8(angle): angle in milli-degrees
angle_to_direction_8(angle0) ==
    LET angle == angle0 % 360000 IN
    IF angle < 22500 \/ angle >= 337500 THEN RIGHT
    ELSE IF 22500 <= angle /\ angle < 67500 THEN UP_RIGHT
    ELSE IF 67500 <= angle /\ angle < 112500 THEN UP
    ELSE IF 112500 <= angle /\ angle < 157500 THEN UP_LEFT
    ELSE IF 157500 <= angle /\ angle < 202500 THEN LEFT
    ELSE IF 202500 <= angle /\ angle < 247500 THEN DOWN_LEFT
    ELSE IF 247500 <= angle /\ angle < 292500 THEN DOWN
    ELSE IF 292500 <= angle /\ angle < 337500 THEN DOWN_RIGHT
    ELSE MIXED

\* flow.score: mean radial projection / mean magnitude (milli)
detect_zoom(flow) ==
    IF flow.mag < 300 THEN [is_zoom |-> FALSE, score |-> 0]
    ELSE [is_zoom |-> Abs(flow.score) > 250, score |-> flow.score]

\* flow.curl: |mean cross product| / (mean magnitude * max(h, w) / 2) (milli)
detect_rotation(flow) ==
    IF flow.mag < 300 THEN FALSE ELSE flow.curl > 150

\* A faulty variant of analyze_flow: a flow whose mean magnitude equals the threshold
\* counts as no movement.
analyze_flow_inclusive(flow, magnitude_threshold) ==
    IF flow.mag <= magnitude_threshold
    THEN [magnitude |-> flow.mag, direction |-> NONE, angle_degrees |-> 0,
          angle_std |-> 0, is_divergent |-> FALSE, is_rotational |-> FALSE]
    ELSE LET zoom == detect_zoom(flow)
             is_rotational == detect_rotation(flow)
             direction ==
                 IF is_rotational /\ ~zoom.is_zoom THEN ROTATION
                 ELSE IF zoom.is_zoom
                      THEN (IF zoom.score > 0 THEN ZOOM_IN ELSE ZOOM_OUT)
                      ELSE angle_to_direction_8(flow.angle)
         IN [magnitude |-> flow.mag, direction |-> direction,
             angle_degrees |-> flow.angle, angle_std |-> flow.std,
             is_divergent |-> zoom.is_zoom, is_rotational |-> is_rotational]

\* flow: the statistics of a dense flow field: mean magnitude, weighted
\* circular mean angle, circular deviation of the angles, divergence score,
\* curl.
analyze_flow(flow, magnitude_threshold) ==
    IF flow.mag < magnitude_threshold
    THEN [magnitude |-> flow.mag, direction |-> NONE, angle_degrees |-> 0,
          angle_std |-> 0, is_divergent |-> FALSE, is_rotational |-> FALSE]
    ELSE LET zoom == detect_zoom(flow)
             is_rotational == detect_rotation(flow)
             direction ==
                 IF is_rotational /\ ~zoom.is_zoom THEN ROTATION
                 ELSE IF zoom.is_zoom
                      THEN (IF zoom.score > 0 THEN ZOOM_IN ELSE ZOOM_OUT)
                      ELSE angle_to_direction_8(flow.angle)
         IN [magnitude |-> flow.mag, direction |-> direction,
             angle_degrees |-> flow.angle, angle_std |-> flow.std,
             is_divergent |-> zoom.is_zoom, is_rotational |-> is_rotational]

\* A faulty variant of angle_difference: the difference is not folded onto the shorter
\* arc.
angle_difference_unfolded(a1, a2) == Abs(a1 - a2) % 360000

\* diff = abs(a1 - a2) % 360; return min(diff, 360 - diff)
angle_difference(a1, a2) ==
    LET diff == Abs(a1 - a2) % 360000 IN Min(diff, 360000 - diff)

(***************************************************************************)
(* scene_change.py                                                         *)
(***************************************************************************)
\* A faulty variant of is_scene_cut: a histogram difference equal to its threshold
\* fires.
is_scene_cut_inclusive(hist_diff, ssim, histogram_threshold, ssim_threshold) ==
    LET hist_ok == hist_diff >= histogram_threshold
        ssim_ok == ssim < ssim_threshold
        hist_ratio == (hist_diff * 1000) \div histogram_threshold
        ssim_ratio == ((1000 - ssim) * 1000) \div (1000 - ssim_threshold)
    IN IF hist_ok /\ ssim_ok
       THEN [cut |-> TRUE, conf |-> Min(1000, (hist_ratio + ssim_ratio) \div 2)]
       ELSE IF hist_ok
       THEN [cut |-> TRUE, conf |-> (hist_ratio * 700) \div 1000]
       ELSE IF ssim_ok
       THEN [cut |-> TRUE, conf |-> (ssim_ratio * 600) \div 1000]
       ELSE [cut |-> FALSE, conf |-> 0]

\* hist_diff, ssim: the results of histogram_difference and ssim_score
is_scene_cut(hist_diff, ssim, histogram_threshold, ssim_threshold) ==
    LET hist_ok == hist_diff > histogram_threshold
        ssim_ok == ssim < ssim_threshold
        hist_ratio == (hist_diff * 1000) \div histogram_threshold
        ssim_ratio == ((1000 - ssim) * 1000) \div (1000 - ssim_threshold)
    IN IF hist_ok /\ ssim_ok
       THEN [cut |-> TRUE, conf |-> Min(1000, (hist_ratio + ssim_ratio) \div 2)]
       ELSE IF hist_ok
       THEN [cut |-> TRUE, conf |-> (hist_ratio * 700) \div 1000]
       ELSE IF ssim_ok
       THEN [cut |-> TRUE, conf |-> (ssim_ratio * 600) \div 1000]
       ELSE [cut |-> FALSE, conf |-> 0]

(***************************************************************************)
(* cut_detector.py                                                         *)
(***************************************************************************)
\* A faulty variant of CutDetectorInit: the magnitude threshold is multiplied by the
\* sensitivity.
CutDetectorInit_multiplies(config) ==
    [sensitivity |-> config.sensitivity,
     frame_skip |-> config.frame_skip,
     magnitude_threshold |-> (config.magnitude_threshold * config.sensitivity) \div 1000,
     angle_change_threshold |-> (config.angle_change_threshold * 1000) \div config.sensitivity,
     stop_threshold |-> config.stop_threshold,
     window_size |-> config.window_size,
     histogram_threshold |-> (config.histogram_threshold * 1000) \div config.sensitivity,
     ssim_threshold |-> Min(990, (config.ssim_threshold * config.sensitivity) \div 1000),
     min_segment_duration |-> config.min_segment_duration]

\* CutDetector.__init__: the thresholds adjusted by the sensitivity
CutDetectorInit(config) ==
    [sensitivity |-> config.sensitivity,
     frame_skip |-> config.frame_skip,
     magnitude_threshold |-> (config.magnitude_threshold * 1000) \div config.sensitivity,
     angle_change_threshold |-> (config.angle_change_threshold * 1000) \div config.sensitivity,
     stop_threshold |-> config.stop_threshold,
     window_size |-> config.window_size,
     histogram_threshold |-> (config.histogram_threshold * 1000) \div config.sensitivity,
     ssim_threshold |-> Min(990, (config.ssim_threshold * config.sensitivity) \div 1000),
     min_segment_duration |-> config.min_segment_duration]

\* deque(maxlen=n).append
Append_maxlen(window, x, n) ==
    IF Len(window) >= n THEN Append(Tail(window), x) ELSE Append(window, x)

\* atan2 in milli-degrees of a vector with small integer components, as
\* np.angle gives it for the sum of unit vectors; np.angle(0) = 0.
ArcTanTable(y, x) ==
    CASE y = 0 -> 0
      [] x = 0 -> 90000
      [] x = y -> 45000
      [] 2 * y = x -> 26565
      [] y = 2 * x -> 63435
      [] 3 * y = x -> 18435
      [] y = 3 * x -> 71565
      [] 3 * y = 2 * x -> 33690
      [] 2 * y = 3 * x -> 56310

Atan2(y, x) ==
    IF x = 0 /\ y = 0 THEN 0
    ELSE IF x >= 0 /\ y >= 0 THEN ArcTanTable(y, x)
    ELSE IF x < 0 /\ y >= 0 THEN 180000 - ArcTanTable(y, -x)
    ELSE IF x < 0 /\ y < 0 THEN 180000 + ArcTanTable(-y, -x)
    ELSE 360000 - ArcTanTable(-y, x)

\* cos and sin of a multiple of 90 degrees
Cos90(a) == CASE a % 360000 = 0 -> 1 [] a % 360000 = 180000 -> -1 [] OTHER -> 0

Sin90(a) == CASE a % 360000 = 90000 -> 1 [] a % 360000 = 270000 -> -1 [] OTHER -> 0

\* _detect_motion_change.circular_mean, for angles that are multiples of 90
\* degrees: the angle of the mean of the unit vectors, in [0, 360)
circular_mean(ang_list) ==
    LET xs == [i \in 1..Len(ang_list) |-> Cos90(ang_list[i])]
        ys == [i \in 1..Len(ang_list) |-> Sin90(ang_list[i])]
    IN Atan2(Sum(ys), Sum(xs)) % 360000

Count(d_list, d) == Cardinality({i \in 1..Len(d_list) : d_list[i] = d})

\* A faulty variant of dominant_direction: a half with a still sample in it has no
\* dominant direction.
dominant_direction_unless_still(d_list0, hash_order) ==
    LET d_list == SelectSeq(d_list0, LAMBDA d : d /= NONE)
        best(d) == \A e \in 1..Len(d_list) : Count(d_list, d_list[e]) <= Count(d_list, d)
        present == {i \in 1..Len(hash_order) :
                      Count(d_list, hash_order[i]) > 0 /\ best(hash_order[i])}
    IN IF Len(d_list) < Len(d_list0) THEN NONE
       ELSE hash_order[CHOOSE i \in present : \A j \in present : i <= j]

\* _detect_motion_change.dominant_direction: max(set(d_list), key=d_list.count)
\* returns the first direction of maximal count in the iteration order of the
\* set, which is the order of the hashes of the members (hash_order).
dominant_direction(d_list0, hash_order) ==
    LET d_list == SelectSeq(d_list0, LAMBDA d : d /= NONE)
        best(d) == \A e \in 1..Len(d_list) : Count(d_list, d_list[e]) <= Count(d_list, d)
        present == {i \in 1..Len(hash_order) :
                      Count(d_list, hash_order[i]) > 0 /\ best(hash_order[i])}
    IN IF d_list = <<>> THEN NONE
       ELSE hash_order[CHOOSE i \in present : \A j \in present : i <= j]

\* A faulty variant of detect_motion_change: Start is tested before Stop.
detect_motion_change_start_first(self, angles, mags, dirs, hash_order) ==
    LET half == Len(angles) \div 2
        mags_first == SubSeq(mags, 1, half)
        mags_second == SubSeq(mags, half + 1, Len(mags))
        angles_first == SubSeq(angles, 1, half)
        angles_second == SubSeq(angles, half + 1, Len(angles))
        mean_mag_first == Mean(mags_first)
        mean_mag_second == Mean(mags_second)
        angle_first == circular_mean(angles_first)
        angle_second == circular_mean(angles_second)
        dir_first == dominant_direction(SubSeq(dirs, 1, half), hash_order)
        dir_second == dominant_direction(SubSeq(dirs, half + 1, Len(dirs)), hash_order)
        high == (self.magnitude_threshold * 1500) \div 1000
        low == (self.magnitude_threshold * self.stop_threshold) \div 1000
        ang_diff == angle_difference(angle_first, angle_second)
    IN IF mean_mag_first < low /\ mean_mag_second > high
       THEN [changed |-> TRUE, type |-> "inicio_" \o dir_second,
             confidence |-> Min(1000, ((mean_mag_second * 1000) \div (mean_mag_first + 100)) \div 8)]
       ELSE IF mean_mag_first > high /\ mean_mag_second < low
       THEN [changed |-> TRUE, type |-> "parada_" \o dir_first,
             confidence |-> Min(1000, ((mean_mag_first * 1000) \div (mean_mag_second + 100)) \div 8)]
       ELSE IF mean_mag_first > self.magnitude_threshold
               /\ mean_mag_second > self.magnitude_threshold
               /\ ang_diff >= self.angle_change_threshold
       THEN [changed |-> TRUE, type |-> "mudança_" \o dir_first \o "_para_" \o dir_second,
             confidence |-> Min(1000, (ang_diff * 1000) \div 180000)]
       ELSE [changed |-> FALSE, type |-> "", confidence |-> 0]

detect_motion_change(self, angles, mags, dirs, hash_order) ==
    LET half == Len(angles) \div 2
        mags_first == SubSeq(mags, 1, half)
        mags_second == SubSeq(mags, half + 1, Len(mags))
        angles_first == SubSeq(angles, 1, half)
        angles_second == SubSeq(angles, half + 1, Len(angles))
        mean_mag_first == Mean(mags_first)
        mean_mag_second == Mean(mags_second)
        angle_first == circular_mean(angles_first)
        angle_second == circular_mean(angles_second)
        dir_first == dominant_direction(SubSeq(dirs, 1, half), hash_order)
        dir_second == dominant_direction(SubSeq(dirs, half + 1, Len(dirs)), hash_order)
        high == (self.magnitude_threshold * 1500) \div 1000
        low == (self.magnitude_threshold * self.stop_threshold) \div 1000
        ang_diff == angle_difference(angle_first, angle_second)
    IN IF mean_mag_first > high /\ mean_mag_second < low
       THEN [changed |-> TRUE, type |-> "parada_" \o dir_first,
             confidence |-> Min(1000, ((mean_mag_first * 1000) \div (mean_mag_second + 100)) \div 8)]
       ELSE IF mean_mag_first < low /\ mean_mag_second > high
       THEN [changed |-> TRUE, type |-> "inicio_" \o dir_second,
             confidence |-> Min(1000, ((mean_mag_second * 1000) \div (mean_mag_first + 100)) \div 8)]
       ELSE IF mean_mag_first > self.magnitude_threshold
               /\ mean_mag_second > self.magnitude_threshold
               /\ ang_diff >= self.angle_change_threshold
       THEN [changed |-> TRUE, type |-> "mudança_" \o dir_first \o "_para_" \o dir_second,
             confidence |-> Min(1000, (ang_diff * 1000) \div 180000)]
       ELSE [changed |-> FALSE, type |-> "", confidence |-> 0]

(***************************************************************************)
(* The inputs of a run of CutDetector.detect                               *)
(***************************************************************************)
\* The order in which a set of MovementDirection members is iterated.
HashOrderA ==
    <<RIGHT, LEFT, UP, DOWN, UP_RIGHT, UP_LEFT, DOWN_RIGHT, DOWN_LEFT,
      ZOOM_IN, ZOOM_OUT, ROTATION, MIXED>>

HashOrderB ==
    <<MIXED, ROTATION, ZOOM_OUT, ZOOM_IN, DOWN_LEFT, DOWN_RIGHT, UP_LEFT,
      UP_RIGHT, DOWN, UP, LEFT, RIGHT>>

\* config.yaml, with the frame rate the source reports (0: unknown), the
\* callbacks handed to detect, and the hash order of the process.
RunOf(skip, window, min_duration, fps, progress_cb, stop_cb, hash_order) ==
    [config |-> [sensitivity |-> 1000, frame_skip |-> skip,
                 magnitude_threshold |-> 1000, angle_change_threshold |-> 45000,
                 stop_threshold |-> 300, window_size |-> window,
                 histogram_threshold |-> 400, ssim_threshold |-> 700,
                 min_segment_duration |-> min_duration],
     fps |-> fps, progress_callback |-> progress_cb,
     stop_flag |-> stop_cb, hash_order |-> hash_order]

Runs ==
    { RunOf(0, 2, 1000, 2, TRUE, TRUE, HashOrderA),
      RunOf(0, 2, 500, 3, TRUE, TRUE, HashOrderA),
      RunOf(1, 2, 500, 3, TRUE, TRUE, HashOrderB),
      RunOf(0, 3, 0, 0, FALSE, FALSE, HashOrderB),
      RunOf(1, 2, 1500, 2, TRUE, FALSE, HashOrderA) }

\* What the image routines compute for an analyzed frame against the previous
\* one: the statistics of the flow field, the histogram difference, the SSIM.
SampleOf(mag, angle, hist_diff, ssim) ==
    [flow |-> [mag |-> mag, angle |-> angle, std |-> 0, score |-> 0, curl |-> 0],
     hist_diff |-> hist_diff, ssim |-> ssim]

Samples ==
    { SampleOf(100, 90000, 0, 1000),      \* still, same scene
      SampleOf(10000, 0, 0, 1000),        \* moving right, same scene
      SampleOf(10000, 90000, 100, 900),   \* moving up, same scene
      SampleOf(100, 0, 500, 900),         \* still, histogram alone fires
      SampleOf(100, 0, 800, 100),         \* still, both signals fire
      SampleOf(10000, 90000, 800, 800),   \* moving up, histogram alone fires
      SampleOf(10000, 0, 0, 400) }        \* moving right, SSIM alone fires

(***************************************************************************)
(* CutDetector.detect                                                      *)
(***************************************************************************)
VARIABLES
    run,              \* the inputs of the run
    pc,               \* "start", "first", "loop", "skip", "returned", "raised"
    cap,              \* the frame source
    frame_number,
    last_cut_frame,
    cut_points,
    angle_window,
    magnitude_window,
    direction_window,
    prev_frame,       \* the position in the stream of the frame held as previous
    skip_i,           \* frames skipped so far in this iteration
    progress,         \* the frame indices handed to progress_callback
    polled,           \* calls of stop_flag in this iteration
    stopped,          \* stop_flag has returned True
    analyzed,         \* the frames analyzed: index given, position in the stream, sample
    result,           \* the list returned
    error,            \* the exception raised ("" for none)
    call,             \* the last call of a function on its own: name, arguments, value
    btn_analyze,      \* MainWindow.btn_analyze is enabled
    btn_stop,         \* MainWindow.btn_stop is enabled
    btn_export,       \* MainWindow.btn_export is enabled
    analysis_worker,  \* MainWindow._analysis_worker: the worker created last (0: None)
    workers,          \* the AnalysisWorker threads, by number of creation
    queue,            \* the signals of the workers queued for the thread of the window
    window_cut_points \* MainWindow.cut_points, each event with the worker it is from

vars ==
    <<run, pc, cap, frame_number, last_cut_frame, cut_points, angle_window,
      magnitude_window, direction_window, prev_frame, skip_i, progress, polled,
      stopped, analyzed, result, error, call, btn_analyze, btn_stop,
      btn_export, analysis_worker, workers, queue, window_cut_points>>

\* the state of the window and of its analysis workers
gui_vars ==
    <<btn_analyze, btn_stop, btn_export, analysis_worker, workers, queue,
      window_cut_points>>

MaxWorkers == 2

\* an AnalysisWorker that has not been created; once created: pc is its place in
\* run ("open", "head", "body", "done"), frame the frames it has analyzed, emitted
\* the signals it has emitted, after_stop the frames analyzed since stop()
NoWorker ==
    [state |-> "none", pc |-> "open", stop |-> FALSE, frame |-> 0,
     local_cuts |-> <<>>, emitted |-> <<>>, after_stop |-> 0]

\* the window after a video was opened, before any analysis
GuiStart ==
    /\ btn_analyze = TRUE
    /\ btn_stop = FALSE
    /\ btn_export = FALSE
    /\ analysis_worker = 0
    /\ workers = [w \in 1..MaxWorkers |-> NoWorker]
    /\ queue = <<>>
    /\ window_cut_points = <<>>

\* no function has been called on its own
NoCall == [fn |-> "", args |-> <<>>, ret |-> <<>>]

self == CutDetectorInit(run.config)

\* fps = cap.get(cv2.CAP_PROP_FPS) or 30.0
FpsOf(r) == IF r.fps = 0 THEN 30 ELSE r.fps

\* A faulty variant of MinFramesBetweenCuts: the duration in seconds is taken as a
\* number of frames.
MinFramesBetweenCuts_in_seconds(min_segment_duration, fps) ==
    min_segment_duration \div 1000

\* min_frames_between_cuts = int(self.min_segment_duration * fps)
MinFramesBetweenCuts(min_segment_duration, fps) ==
    (min_segment_duration * fps) \div 1000

\* A faulty variant of Timestamp: the time is taken from a frame index that counts
\* from zero.
Timestamp_zero_based(frame, fps) == ((frame - 1) * 1000) \div fps

\* timestamp = frame_number / fps, in milliseconds
Timestamp(frame, fps) == (frame * 1000) \div fps

\* A faulty variant of SpacingGate: the gate is off by one frame.
SpacingGate_off_by_one(frames_since_last_cut, min_frames_between_cuts) ==
    frames_since_last_cut + 1 < min_frames_between_cuts

\* if frames_since_last_cut < min_frames_between_cuts: ... continue
SpacingGate(frames_since_last_cut, min_frames_between_cuts) ==
    frames_since_last_cut < min_frames_between_cuts

\* A faulty variant of WindowFull: two samples count as a full window.
WindowFull_two_samples(window, window_size) == Len(window) >= 2

\* if len(magnitude_window) >= self.window_size
WindowFull(window, window_size) == Len(window) >= window_size

\* A faulty variant of SceneOverrides: an equal scene confidence overrides too.
SceneOverrides_on_ties(scene, confidence) == scene.cut /\ scene.conf >= confidence

\* if scene_cut and scene_conf > confidence
SceneOverrides(scene, confidence) == scene.cut /\ scene.conf > confidence

\* what the two detectors report on a frame: change is the motion change of
\* the windows (evaluated on full windows only), scene the result of
\* is_scene_cut on the previous and the current frame
Signals(det, r, angles, mags, dirs, sample) ==
    [change |-> IF WindowFull(mags, det.window_size)
                THEN detect_motion_change(det, angles, mags, dirs, r.hash_order)
                ELSE [changed |-> FALSE, type |-> "", confidence |-> 0],
     scene |-> is_scene_cut(sample.hist_diff, sample.ssim,
                            det.histogram_threshold, det.ssim_threshold)]

\* the candidate cut of a frame that passed the spacing gate: cut_reason
\* ("" for None) and confidence
Candidate(sig) ==
    LET motion_cand == IF sig.change.changed
                       THEN [cut_reason |-> sig.change.type,
                             confidence |-> sig.change.confidence]
                       ELSE [cut_reason |-> "", confidence |-> 0]
    IN IF SceneOverrides(sig.scene, motion_cand.confidence)
       THEN [cut_reason |-> "corte_de_cena", confidence |-> sig.scene.conf]
       ELSE motion_cand

\* A faulty variant of ReportProgress: notifications are coalesced, every second frame
\* is reported.
ReportProgress_coalesced(r, calls, frame) ==
    IF r.progress_callback /\ frame % 2 = 0 THEN Append(calls, frame) ELSE calls

\* progress_callback(frame_number, total_frames, motion)
ReportProgress(r, calls, frame) ==
    IF r.progress_callback THEN Append(calls, frame) ELSE calls

\* A faulty variant of ClearWindows: the window of directions is left as it is.
ClearWindows_keeps_directions(d) ==
    [d EXCEPT !.angle_window = <<>>, !.magnitude_window = <<>>]

\* angle_window.clear(); magnitude_window.clear(); direction_window.clear()
ClearWindows(d) ==
    [d EXCEPT !.angle_window = <<>>, !.magnitude_window = <<>>,
              !.direction_window = <<>>]

\* A faulty variant of LoopBody: the spacing gate is tested before the sample is
\* appended and reported, so a frame it holds back leaves no trace.
LoopBody_gate_first(det, r, d, pos, sample) ==
    LET fn == d.frame_number + 1
        motion == analyze_flow(sample.flow, det.magnitude_threshold)
        angles == Append_maxlen(d.angle_window, motion.angle_degrees, det.window_size)
        mags == Append_maxlen(d.magnitude_window, motion.magnitude, det.window_size)
        dirs == Append_maxlen(d.direction_window, motion.direction, det.window_size)
        calls == ReportProgress(r, d.progress, fn)
        fps == FpsOf(r)
        min_frames == MinFramesBetweenCuts(det.min_segment_duration, fps)
        cand == Candidate(Signals(det, r, angles, mags, dirs, sample))
        advanced == [d EXCEPT !.frame_number = fn, !.angle_window = angles,
                              !.magnitude_window = mags, !.direction_window = dirs,
                              !.progress = calls, !.prev_frame = pos]
    IN IF SpacingGate(fn - d.last_cut_frame, min_frames)
       THEN [d EXCEPT !.frame_number = fn, !.prev_frame = pos]
       ELSE IF cand.cut_reason /= ""
       THEN ClearWindows([advanced EXCEPT
               !.cut_points = Append(d.cut_points,
                   [frame |-> fn, timestamp |-> Timestamp(fn, fps),
                    type |-> cand.cut_reason, confidence |-> cand.confidence,
                    angle |-> motion.angle_degrees, magnitude |-> motion.magnitude,
                    direction |-> motion.direction]),
               !.last_cut_frame = fn])
       ELSE advanced

\* The body of the loop from the successful read of curr_frame on: d is the
\* state of the loop, pos the position of curr_frame in the stream.
LoopBody(det, r, d, pos, sample) ==
    LET fn == d.frame_number + 1
        motion == analyze_flow(sample.flow, det.magnitude_threshold)
        angles == Append_maxlen(d.angle_window, motion.angle_degrees, det.window_size)
        mags == Append_maxlen(d.magnitude_window, motion.magnitude, det.window_size)
        dirs == Append_maxlen(d.direction_window, motion.direction, det.window_size)
        calls == ReportProgress(r, d.progress, fn)
        fps == FpsOf(r)
        min_frames == MinFramesBetweenCuts(det.min_segment_duration, fps)
        cand == Candidate(Signals(det, r, angles, mags, dirs, sample))
        advanced == [d EXCEPT !.frame_number = fn, !.angle_window = angles,
                              !.magnitude_window = mags, !.direction_window = dirs,
                              !.progress = calls, !.prev_frame = pos]
    IN IF SpacingGate(fn - d.last_cut_frame, min_frames) THEN advanced
       ELSE IF cand.cut_reason /= ""
       THEN ClearWindows([advanced EXCEPT
               !.cut_points = Append(d.cut_points,
                   [frame |-> fn, timestamp |-> Timestamp(fn, fps),
                    type |-> cand.cut_reason, confidence |-> cand.confidence,
                    angle |-> motion.angle_degrees, magnitude |-> motion.magnitude,
                    direction |-> motion.direction]),
               !.last_cut_frame = fn])
       ELSE advanced

\* the state of the loop
Loop ==
    [frame_number |-> frame_number, last_cut_frame |-> last_cut_frame,
     cut_points |-> cut_points, angle_window |-> angle_window,
     magnitude_window |-> magnitude_window, direction_window |-> direction_window,
     prev_frame |-> prev_frame, progress |-> progress]

SetLoop(d) ==
    /\ frame_number' = d.frame_number
    /\ last_cut_frame' = d.last_cut_frame
    /\ cut_points' = d.cut_points
    /\ angle_window' = d.angle_window
    /\ magnitude_window' = d.magnitude_window
    /\ direction_window' = d.direction_window
    /\ prev_frame' = d.prev_frame
    /\ progress' = d.progress

\* cap.read(): the answers the source can give, and the source after it
ReadOutcomes == IF ~cap.ended /\ cap.pos < MaxFrames THEN {TRUE, FALSE} ELSE {FALSE}

AfterRead(ret) ==
    IF ret THEN [cap EXCEPT !.pos = cap.pos + 1, !.reads = cap.reads + 1]
    ELSE [cap EXCEPT !.ended = TRUE, !.reads = cap.reads + 1]

Init ==
    /\ run \in Runs
    /\ pc = "start"
    /\ cap = [opened |-> FALSE, released |-> FALSE, pos |-> 0, reads |-> 0,
              ended |-> FALSE]
    /\ frame_number = 0
    /\ last_cut_frame = 0
    /\ cut_points = <<>>
    /\ angle_window = <<>>
    /\ magnitude_window = <<>>
    /\ direction_window = <<>>
    /\ prev_frame = 0
    /\ skip_i = 0
    /\ progress = <<>>
    /\ polled = 0
    /\ stopped = FALSE
    /\ analyzed = <<>>
    /\ result = <<>>
    /\ error = ""
    /\ call = NoCall
    /\ GuiStart

\* A faulty variant of Open: the source is not checked after it is opened.
Open_unchecked ==
    /\ pc = "start"
    /\ \E ok \in BOOLEAN : cap' = [cap EXCEPT !.opened = ok]
    /\ pc' = "first"
    /\ UNCHANGED <<gui_vars, call, run, frame_number, last_cut_frame, cut_points, angle_window,
                   magnitude_window, direction_window, prev_frame, skip_i,
                   progress, polled, stopped, analyzed, result, error>>

\* cap = cv2.VideoCapture(video_path); if not cap.isOpened(): raise ValueError
Open ==
    /\ pc = "start"
    /\ \E ok \in BOOLEAN :
         IF ok
         THEN /\ cap' = [cap EXCEPT !.opened = TRUE]
              /\ pc' = "first"
              /\ error' = error
         ELSE /\ cap' = cap
              /\ pc' = "raised"
              /\ error' = "ValueError"
    /\ UNCHANGED <<gui_vars, call, run, frame_number, last_cut_frame, cut_points, angle_window,
                   magnitude_window, direction_window, prev_frame, skip_i,
                   progress, polled, stopped, analyzed, result>>

\* A faulty variant of ReadFirst: a first read that fails raises an error.
ReadFirst_raises ==
    /\ pc = "first"
    /\ \E ret \in ReadOutcomes :
         IF ret
         THEN /\ cap' = AfterRead(ret)
              /\ prev_frame' = cap.pos + 1
              /\ frame_number' = 1
              /\ pc' = "loop"
              /\ error' = error
         ELSE /\ cap' = AfterRead(ret)
              /\ error' = "ValueError"
              /\ pc' = "raised"
              /\ UNCHANGED <<prev_frame, frame_number>>
    /\ UNCHANGED <<gui_vars, call, run, last_cut_frame, cut_points, angle_window, magnitude_window,
                   direction_window, skip_i, progress, polled, stopped, analyzed,
                   result>>

\* ret, prev_frame = cap.read(); if not ret: cap.release(); return []
ReadFirst ==
    /\ pc = "first"
    /\ \E ret \in ReadOutcomes :
         IF ret
         THEN /\ cap' = AfterRead(ret)
              /\ prev_frame' = cap.pos + 1
              /\ frame_number' = 1
              /\ pc' = "loop"
              /\ result' = result
         ELSE /\ cap' = [AfterRead(ret) EXCEPT !.released = TRUE]
              /\ result' = <<>>
              /\ pc' = "returned"
              /\ UNCHANGED <<prev_frame, frame_number>>
    /\ UNCHANGED <<gui_vars, call, run, last_cut_frame, cut_points, angle_window, magnitude_window,
                   direction_window, skip_i, progress, polled, stopped, analyzed,
                   error>>

\* A faulty variant of PollStop: the answer of stop_flag takes effect only after the
\* frames of the iteration were read.
PollStop_late ==
    /\ pc = "loop"
    /\ \E flag \in (IF run.stop_flag THEN BOOLEAN ELSE {FALSE}) :
         /\ polled' = IF run.stop_flag THEN polled + 1 ELSE polled
         /\ stopped' = (stopped \/ flag)
    /\ IF stopped
       THEN /\ cap' = [cap EXCEPT !.released = TRUE]
            /\ result' = cut_points
            /\ pc' = "returned"
       ELSE /\ pc' = "skip"
            /\ UNCHANGED <<cap, result>>
    /\ skip_i' = 0
    /\ UNCHANGED <<gui_vars, call, run, frame_number, last_cut_frame, cut_points, angle_window,
                   magnitude_window, direction_window, prev_frame, progress,
                   analyzed, error>>

\* A faulty variant of PollStop: a cancelled run discards the cuts it has found.
PollStop_discards ==
    /\ pc = "loop"
    /\ \E flag \in (IF run.stop_flag THEN BOOLEAN ELSE {FALSE}) :
         /\ polled' = IF run.stop_flag THEN polled + 1 ELSE polled
         /\ IF flag
            THEN /\ stopped' = TRUE
                 /\ cap' = [cap EXCEPT !.released = TRUE]
                 /\ result' = <<>>
                 /\ pc' = "returned"
            ELSE /\ pc' = "skip"
                 /\ UNCHANGED <<stopped, cap, result>>
    /\ skip_i' = 0
    /\ UNCHANGED <<gui_vars, call, run, frame_number, last_cut_frame, cut_points, angle_window,
                   magnitude_window, direction_window, prev_frame, progress,
                   analyzed, error>>

\* while True: if stop_flag and stop_flag(): break; then cap.release() and
\* return cut_points
PollStop ==
    /\ pc = "loop"
    /\ \E flag \in (IF run.stop_flag THEN BOOLEAN ELSE {FALSE}) :
         /\ polled' = IF run.stop_flag THEN polled + 1 ELSE polled
         /\ IF flag
            THEN /\ stopped' = TRUE
                 /\ cap' = [cap EXCEPT !.released = TRUE]
                 /\ result' = cut_points
                 /\ pc' = "returned"
            ELSE /\ pc' = "skip"
                 /\ UNCHANGED <<stopped, cap, result>>
    /\ skip_i' = 0
    /\ UNCHANGED <<gui_vars, call, run, frame_number, last_cut_frame, cut_points, angle_window,
                   magnitude_window, direction_window, prev_frame, progress,
                   analyzed, error>>

\* A faulty variant of SkipRead: a discarded frame is not counted.
SkipRead_uncounted ==
    /\ pc = "skip"
    /\ skip_i < self.frame_skip
    /\ \E ret \in ReadOutcomes : cap' = AfterRead(ret)
    /\ frame_number' = frame_number
    /\ skip_i' = skip_i + 1
    /\ UNCHANGED <<gui_vars, call, run, pc, last_cut_frame, cut_points, angle_window,
                   magnitude_window, direction_window, prev_frame, progress,
                   polled, stopped, analyzed, result, error>>

\* for _ in range(self.frame_skip): cap.read(); frame_number += 1
SkipRead ==
    /\ pc = "skip"
    /\ skip_i < self.frame_skip
    /\ \E ret \in ReadOutcomes : cap' = AfterRead(ret)
    /\ frame_number' = frame_number + 1
    /\ skip_i' = skip_i + 1
    /\ UNCHANGED <<gui_vars, call, run, pc, last_cut_frame, cut_points, angle_window,
                   magnitude_window, direction_window, prev_frame, progress,
                   polled, stopped, analyzed, result, error>>

\* A faulty variant of ReadFrame: a read that fails in the loop returns an empty list,
\* as the first read does.
ReadFrame_discards ==
    /\ pc = "skip"
    /\ skip_i >= self.frame_skip
    /\ \E ret \in ReadOutcomes :
         IF ret
         THEN \E sample \in Samples :
                /\ cap' = AfterRead(ret)
                /\ SetLoop(LoopBody(self, run, Loop, cap.pos + 1, sample))
                /\ analyzed' = Append(analyzed,
                                      [frame |-> frame_number + 1, pos |-> cap.pos + 1,
                                       sample |-> sample])
                /\ pc' = "loop"
                /\ result' = result
         ELSE /\ cap' = [AfterRead(ret) EXCEPT !.released = TRUE]
              /\ result' = <<>>
              /\ pc' = "returned"
              /\ UNCHANGED <<frame_number, last_cut_frame, cut_points, angle_window,
                             magnitude_window, direction_window, prev_frame,
                             progress, analyzed>>
    /\ polled' = 0
    /\ skip_i' = 0
    /\ UNCHANGED <<gui_vars, call, run, stopped, error>>

\* A faulty variant of ReadFrame: the read waits for a frame when the source has
\* none left.
ReadFrame_blocks ==
    /\ pc = "skip"
    /\ skip_i >= self.frame_skip
    /\ \E ret \in ReadOutcomes \ {FALSE} :
         IF ret
         THEN \E sample \in Samples :
                /\ cap' = AfterRead(ret)
                /\ SetLoop(LoopBody(self, run, Loop, cap.pos + 1, sample))
                /\ analyzed' = Append(analyzed,
                                      [frame |-> frame_number + 1, pos |-> cap.pos + 1,
                                       sample |-> sample])
                /\ pc' = "loop"
                /\ result' = result
         ELSE /\ cap' = [AfterRead(ret) EXCEPT !.released = TRUE]
              /\ result' = cut_points
              /\ pc' = "returned"
              /\ UNCHANGED <<frame_number, last_cut_frame, cut_points, angle_window,
                             magnitude_window, direction_window, prev_frame,
                             progress, analyzed>>
    /\ polled' = 0
    /\ skip_i' = 0
    /\ UNCHANGED <<gui_vars, call, run, stopped, error>>

\* ret, curr_frame = cap.read(); if not ret: break; otherwise the rest of the
\* body of the loop
ReadFrame ==
    /\ pc = "skip"
    /\ skip_i >= self.frame_skip
    /\ \E ret \in ReadOutcomes :
         IF ret
         THEN \E sample \in Samples :
                /\ cap' = AfterRead(ret)
                /\ SetLoop(LoopBody(self, run, Loop, cap.pos + 1, sample))
                /\ analyzed' = Append(analyzed,
                                      [frame |-> frame_number + 1, pos |-> cap.pos + 1,
                                       sample |-> sample])
                /\ pc' = "loop"
                /\ result' = result
         ELSE /\ cap' = [AfterRead(ret) EXCEPT !.released = TRUE]
              /\ result' = cut_points
              /\ pc' = "returned"
              /\ UNCHANGED <<frame_number, last_cut_frame, cut_points, angle_window,
                             magnitude_window, direction_window, prev_frame,
                             progress, analyzed>>
    /\ polled' = 0
    /\ skip_i' = 0
    /\ UNCHANGED <<gui_vars, call, run, stopped, error>>

Next == Open \/ ReadFirst \/ PollStop \/ SkipRead \/ ReadFrame

Spec == Init /\ [][Next]_vars

\* detect runs on one thread and is not suspended: a step that can be taken is
\* taken.
FairSpec == Spec /\ WF_vars(Next)

(***************************************************************************)
(* The run that is not cancelled, as a function of the stream              *)
(***************************************************************************)
\* the state of the loop after the first frame was read
LoopStart ==
    [frame_number |-> 1, last_cut_frame |-> 0, cut_points |-> <<>>,
     angle_window |-> <<>>, magnitude_window |-> <<>>, direction_window |-> <<>>,
     prev_frame |-> 1, progress |-> <<>>]

\* one iteration whose reads all succeed: frame_skip frames are discarded and
\* the next one is analyzed
Iteration(det, r, d, sample) ==
    LoopBody(det, r, [d EXCEPT !.frame_number = d.frame_number + det.frame_skip],
             d.frame_number + det.frame_skip + 1, sample)

\* the loop over a stream whose analyzed frames give the samples, from state d
RECURSIVE RunFrom(_, _, _, _)
RunFrom(det, r, d, samples) ==
    IF samples = <<>> THEN d
    ELSE RunFrom(det, r, Iteration(det, r, d, Head(samples)), Tail(samples))

FullRun(det, r, samples) == RunFrom(det, r, LoopStart, samples)

SamplesOf(frames) == [i \in 1..Len(frames) |-> frames[i].sample]

\* the state of the loop before the last analyzed frame was read, and what the
\* detectors reported on that frame
BeforeLast ==
    LET d == FullRun(self, run, SamplesOf(SubSeq(analyzed, 1, Len(analyzed) - 1)))
    IN [d EXCEPT !.frame_number = d.frame_number + self.frame_skip]

SignalsAt(d, sample) ==
    LET motion == analyze_flow(sample.flow, self.magnitude_threshold)
    IN Signals(self, run,
               Append_maxlen(d.angle_window, motion.angle_degrees, self.window_size),
               Append_maxlen(d.magnitude_window, motion.magnitude, self.window_size),
               Append_maxlen(d.direction_window, motion.direction, self.window_size),
               sample)

GatedAt(d) ==
    SpacingGate(d.frame_number + 1 - d.last_cut_frame,
                MinFramesBetweenCuts(self.min_segment_duration, FpsOf(run)))

LastSignals == SignalsAt(BeforeLast, analyzed[Len(analyzed)].sample)

LastGated == GatedAt(BeforeLast)

Last(s) == s[Len(s)]

CutEmitted == Len(cut_points') > Len(cut_points)

MinFrames == MinFramesBetweenCuts(self.min_segment_duration, FpsOf(run))

Terminated == pc \in {"returned", "raised"}

(***************************************************************************)
(* Claims                                                                  *)
(***************************************************************************)

\* C1: two consecutive cut events of the list are at least
\* min_segment_duration apart in time (one unit of rounding allowed), for
\* every fps, min_segment_duration and frame_skip.
C1_ConsecutiveCutsSpacedInTime ==
    \A i \in 1..(Len(cut_points) - 1) :
        cut_points[i + 1].timestamp - cut_points[i].timestamp
            >= self.min_segment_duration - 1

\* C2 (as stated): after a cut the three windows are empty, and no further cut
\* of any type is emitted until window_size new samples have been appended and
\* min_frames_between_cuts frames have elapsed since that cut.
C2_NoCutUntilWindowsRefilled ==
    [][CutEmitted =>
         /\ angle_window' = <<>> /\ magnitude_window' = <<>> /\ direction_window' = <<>>
         /\ cut_points /= <<>> =>
              /\ Len(magnitude_window) + 1 >= self.window_size
              /\ frame_number' - last_cut_frame >= MinFrames]_vars

\* C2 (amended): after a cut the three windows are empty, and no further cut
\* is emitted until min_frames_between_cuts frames have elapsed since that
\* cut; a further motion-change cut needs window_size new samples as well, a
\* corte_de_cena does not.
C2_NoMotionCutUntilWindowsRefilled ==
    [][CutEmitted =>
         /\ angle_window' = <<>> /\ magnitude_window' = <<>> /\ direction_window' = <<>>
         /\ cut_points /= <<>> =>
              /\ frame_number' - last_cut_frame >= MinFrames
              /\ Last(cut_points').type /= "corte_de_cena"
                   => Len(magnitude_window) + 1 >= self.window_size]_vars

\* a second cut that is a motion change, emitted once the spacing gate was
\* passed and the windows had refilled
C2_Witness ==
    /\ Len(cut_points) >= 2
    /\ cut_points[2].type /= "corte_de_cena"
    /\ magnitude_window = <<>>
    /\ MinFrames >= 1

\* C3: every cut event has a confidence in [0, 1].
C3_ConfidenceInUnitInterval ==
    \A i \in 1..Len(cut_points) :
        0 <= cut_points[i].confidence /\ cut_points[i].confidence <= 1000

\* C4: on a frame where both a motion change and a scene cut are reported, the
\* cut emitted is a corte_de_cena with the scene confidence only if the scene
\* confidence is strictly higher; otherwise (equal or lower) it keeps the type
\* and the confidence of the motion change.
C4_SceneWinsOnlyIfStrictlyHigher ==
    [][Len(analyzed') > Len(analyzed) =>
         LET sig == SignalsAt(Loop, Last(analyzed').sample)
         IN (~GatedAt(Loop) /\ sig.change.changed /\ sig.scene.cut) =>
              /\ CutEmitted
              /\ Last(cut_points').frame = frame_number'
              /\ IF sig.scene.conf > sig.change.confidence
                 THEN /\ Last(cut_points').type = "corte_de_cena"
                      /\ Last(cut_points').confidence = sig.scene.conf
                 ELSE /\ Last(cut_points').type = sig.change.type
                      /\ Last(cut_points').confidence = sig.change.confidence]_vars

\* both detectors reported on the last frame with equal confidences, and the
\* cut emitted on it is the motion change
C4_Witness ==
    /\ analyzed /= <<>>
    /\ ~LastGated
    /\ LastSignals.change.changed
    /\ LastSignals.scene.cut
    /\ LastSignals.scene.conf = LastSignals.change.confidence
    /\ cut_points /= <<>>
    /\ Last(cut_points).frame = frame_number
    /\ Last(cut_points).type = LastSignals.change.type

\* C5: stop_flag is polled exactly once per iteration, before any frame of the
\* iteration is read; once it has returned True no further frame is consumed,
\* no progress is reported and no cut is emitted.
C5_CancellationPolledBeforeReading ==
    /\ [](run.stop_flag => /\ pc = "loop" => polled = 0
                           /\ pc = "skip" => polled = 1)
    /\ [][(run.stop_flag /\ cap.reads' > cap.reads /\ pc \in {"loop", "skip"})
            => polled = 1]_vars
    /\ [][stopped' => /\ cap.reads' = cap.reads
                      /\ cap.pos' = cap.pos
                      /\ progress' = progress
                      /\ analyzed' = analyzed
                      /\ cut_points' = cut_points]_vars

\* a run cancelled after it found a cut, with frames left in the source
C5_Witness ==
    /\ stopped
    /\ pc = "returned"
    /\ cut_points /= <<>>
    /\ ~cap.ended
    /\ cap.pos < MaxFrames

\* C6: a cancelled run returns, without an error, exactly the cuts found up
\* to the cancellation, in order.  They are a prefix of what the run that is
\* not cancelled returns on the same stream: the cuts of a run are at every
\* point those of the loop that is never cancelled on the frames analyzed so
\* far, and a step of the loop only appends to them.
C6_CancelledRunReturnsPrefix ==
    /\ []((pc = "returned" /\ stopped) => (error = "" /\ result = cut_points))
    /\ [](cut_points = FullRun(self, run, SamplesOf(analyzed)).cut_points)
    /\ [][IsPrefix(cut_points, cut_points')]_vars

\* a cancelled run that returns a cut, with frames left in the source
C6_Witness ==
    /\ pc = "returned"
    /\ stopped
    /\ result /= <<>>
    /\ Len(analyzed) >= 2
    /\ cap.pos < MaxFrames

\* C7: with a progress sink, it is called exactly once for every analyzed
\* frame, gated or not, with the index of that frame, in strictly increasing
\* order, and never for a skipped or unread frame.
C7_ProgressOncePerAnalyzedFrame ==
    /\ run.progress_callback =>
         /\ Len(progress) = Len(analyzed)
         /\ \A i \in 1..Len(progress) :
              /\ progress[i] = analyzed[i].frame
              /\ progress[i] = analyzed[i].pos
              /\ progress[i] <= cap.pos
    /\ ~run.progress_callback => progress = <<>>
    /\ \A i \in 1..(Len(progress) - 1) : progress[i] < progress[i + 1]

\* progress was reported for a frame held back by the spacing gate, after a
\* frame that emitted a cut, in a run that skips frames
C7_Witness ==
    /\ run.progress_callback
    /\ self.frame_skip > 0
    /\ Len(progress) >= 2
    /\ cut_points /= <<>>
    /\ LastGated

\* C8 (as stated): if the source cannot be opened or yields no initial frame,
\* detect fails with an error and attempts no analysis.
C8_FatalWithoutInitialFrame ==
    (Terminated /\ (~cap.opened \/ cap.pos = 0)) =>
        /\ error /= ""
        /\ analyzed = <<>>

\* C8 (amended): if the source cannot be opened, detect raises at once, with
\* no frame read and no analysis attempted; a source that opens but yields no
\* initial frame is not an error.
C8_FatalOnlyWhenSourceCannotOpen ==
    /\ ~cap.opened => /\ cap.reads = 0
                      /\ analyzed = <<>>
                      /\ cut_points = <<>>
                      /\ progress = <<>>
                      /\ pc \in {"start", "raised"}
    /\ (Terminated /\ ~cap.opened) => (pc = "raised" /\ error = "ValueError")
    /\ (Terminated /\ cap.opened) => (pc = "returned" /\ error = "")

\* the source could not be opened and the error was raised
C8_Witness == pc = "raised" /\ ~cap.opened /\ error = "ValueError"

\* C9: if the source opens but the first frame cannot be read, detect returns
\* an empty list, raises no error, reports no progress, and has released the
\* source.
C9_EmptyListWhenFirstReadFails ==
    (Terminated /\ cap.opened /\ cap.pos = 0) =>
        /\ pc = "returned"
        /\ result = <<>>
        /\ error = ""
        /\ progress = <<>>
        /\ analyzed = <<>>
        /\ cap.released

\* the source opened and its first read failed
C9_Witness ==
    /\ pc = "returned"
    /\ cap.opened
    /\ cap.ended
    /\ cap.pos = 0
    /\ cap.reads = 1

C11_EventsOrderedStampedAndKept ==
    /\ [](\A i \in 1..Len(cut_points) :
            /\ cut_points[i].frame >= 1
            /\ cut_points[i].timestamp * FpsOf(run) <= cut_points[i].frame * 1000
            /\ cut_points[i].frame * 1000 < (cut_points[i].timestamp + 1) * FpsOf(run)
            /\ i > 1 => cut_points[i - 1].frame < cut_points[i].frame)
    /\ []((pc = "returned") => (result = cut_points))
    /\ [][IsPrefix(cut_points, cut_points')]_vars

C11_Witness == pc = "returned" /\ Len(result) >= 2

(***************************************************************************)
(* C12: the three windows always have one length, at most window_size;     *)
(* they hold, in order, the motion of the frames analyzed last, all of     *)
(* them frames after the most recent cut; and the step that appends a cut  *)
(* leaves the three windows empty.                                         *)
(***************************************************************************)
C12_WindowsAlignedAndFresh ==
    /\ [](LET n == Len(magnitude_window)
              base == Len(analyzed) - n
          IN /\ Len(angle_window) = n
             /\ Len(direction_window) = n
             /\ n <= self.window_size
             /\ base >= 0
             /\ \A k \in 1..n :
                  LET motion == analyze_flow(analyzed[base + k].sample.flow,
                                             self.magnitude_threshold)
                  IN /\ analyzed[base + k].frame > last_cut_frame
                     /\ angle_window[k] = motion.angle_degrees
                     /\ magnitude_window[k] = motion.magnitude
                     /\ direction_window[k] = motion.direction)
    /\ [][Len(cut_points') > Len(cut_points) =>
            /\ angle_window' = <<>>
            /\ magnitude_window' = <<>>
            /\ direction_window' = <<>>]_vars

C12_Witness == cut_points /= <<>> /\ Len(magnitude_window) = self.window_size

(***************************************************************************)
(* The functions called on their own                                       *)
(*                                                                         *)
(* A second specification: detect does not run; one function is applied to *)
(* arguments drawn from bounded sets and call records its name, arguments  *)
(* and value. A call of detect is on a stream given frame by frame.        *)
(***************************************************************************)
MaxStream == 4

\* the detector does not run
DetectIdle ==
    UNCHANGED <<gui_vars, run, pc, cap, frame_number, last_cut_frame, cut_points, angle_window,
                magnitude_window, direction_window, prev_frame, skip_i, progress,
                polled, stopped, analyzed, result, error>>

\* the run whose configuration the calls vary
BaseRun == RunOf(0, 2, 500, 3, TRUE, TRUE, HashOrderA)

\* analysis.sensitivity, as the slider of the window sets it (0.01 .. 1.00)
Sensitivities == {250, 500, 1000}

WithSensitivity(r, s) == [r EXCEPT !.config.sensitivity = s]

\* the samples of the streams detect is called on
StreamSamples ==
    { SampleOf(10000, 0, 0, 1000),        \* moving right, same scene
      SampleOf(500, 0, 0, 1000),          \* drifting right, same scene
      SampleOf(10000, 90000, 0, 1000),    \* moving up, same scene
      SampleOf(100, 0, 500, 900) }        \* still, histogram alone fires

\* CutDetector(config).detect(video_path) on a stream that opens, gives a first
\* frame and then the frames of samples
DetectOn(s, samples) ==
    FullRun(CutDetectorInit(WithSensitivity(BaseRun, s).config), BaseRun,
            samples).cut_points

CallDetect ==
    /\ \E s \in Sensitivities, sample \in StreamSamples :
         /\ \/ call = NoCall
            \/ /\ call.fn = "detect"
               /\ call.args[1] = s
               /\ Len(call.args[2]) < MaxStream
         /\ LET samples == IF call.fn = "detect" THEN Append(call.args[2], sample)
                           ELSE <<sample>>
            IN call' = [fn |-> "detect", args |-> <<s, samples>>,
                        ret |-> DetectOn(s, samples)]
    /\ DetectIdle

\* config.yaml: the settings CutDetector reads
Configs ==
    [sensitivity : {10, 250, 500, 1000, 1500},
     frame_skip : {0, 1},
     magnitude_threshold : {1000, 1500, 2001},
     angle_change_threshold : {45000},
     stop_threshold : {300, 2000},
     window_size : {2, 3},
     histogram_threshold : {350, 400},
     ssim_threshold : {700, 995},
     min_segment_duration : {0, 1500}]

\* CutDetector(config)
CallCutDetector ==
    /\ call = NoCall
    /\ \E config \in Configs :
         call' = [fn |-> "CutDetector", args |-> <<config>>,
                  ret |-> CutDetectorInit(config)]
    /\ DetectIdle

\* the flows of the frames whose motion fills the windows
WindowFlows ==
    { [mag |-> 100, angle |-> 0, std |-> 0, score |-> 0, curl |-> 0],
      [mag |-> 250, angle |-> 90000, std |-> 0, score |-> 0, curl |-> 0],
      [mag |-> 1200, angle |-> 90000, std |-> 0, score |-> 0, curl |-> 0],
      [mag |-> 1800, angle |-> 0, std |-> 0, score |-> 0, curl |-> 0],
      [mag |-> 1800, angle |-> 90000, std |-> 0, score |-> 0, curl |-> 0],
      [mag |-> 10000, angle |-> 0, std |-> 0, score |-> 0, curl |-> 0],
      [mag |-> 10000, angle |-> 90000, std |-> 0, score |-> 0, curl |-> 0] }

\* the detectors _detect_motion_change is called on
WindowDetectors ==
    { CutDetectorInit([BaseRun.config EXCEPT !.stop_threshold = st, !.window_size = ws]) :
        st \in {300, 2000}, ws \in {2, 3, 4} }

\* self._detect_motion_change(angle_window, magnitude_window, direction_window)
\* on full windows
CallDetectMotionChange ==
    /\ call = NoCall
    /\ \E det \in WindowDetectors, hash_order \in {HashOrderA, HashOrderB} :
         \E flows \in [1..det.window_size -> WindowFlows] :
           LET motion == [i \in 1..det.window_size |->
                             analyze_flow(flows[i], det.magnitude_threshold)]
               angles == [i \in 1..det.window_size |-> motion[i].angle_degrees]
               mags == [i \in 1..det.window_size |-> motion[i].magnitude]
               dirs == [i \in 1..det.window_size |-> motion[i].direction]
           IN call' = [fn |-> "_detect_motion_change",
                       args |-> <<det, angles, mags, dirs, hash_order>>,
                       ret |-> detect_motion_change(det, angles, mags, dirs, hash_order)]
    /\ DetectIdle

MaxTurns == 1

\* angles in milli-degrees: the sixteenths of a turn up to MaxTurns turns either
\* way, and the neighbours of 0, 180 and 360 degrees
AngleInputs ==
    {k * 22500 : k \in (-16 * MaxTurns)..(16 * MaxTurns)}
        \cup {-1, 1, 179999, 180001, 359999}

\* angle_difference(a1, a2)
CallAngleDifference ==
    /\ call = NoCall
    /\ \E a1 \in AngleInputs, a2 \in AngleInputs :
         call' = [fn |-> "angle_difference", args |-> <<a1, a2>>,
                  ret |-> angle_difference(a1, a2)]
    /\ DetectIdle

\* the angles of [0, 360) in steps of half a degree, and the neighbours of the
\* eight boundaries
SectorAngles ==
    {k * 500 : k \in 0..719}
        \cup {22500 + k * 45000 + e : k \in 0..7, e \in {-1, 1}}
        \cup {359999}

\* _angle_to_direction_8(angle)
CallAngleToDirection8 ==
    /\ call = NoCall
    /\ \E angle \in SectorAngles :
         call' = [fn |-> "_angle_to_direction_8", args |-> <<angle>>,
                  ret |-> angle_to_direction_8(angle)]
    /\ DetectIdle

\* the statistics of the flow fields analyze_flow is called on
FlowInputs ==
    [mag : {0, 200, 299, 300, 999, 1000, 1001, 5000},
     angle : {0, 100000, 359999},
     std : {0, 30000},
     score : {-500, 0, 500},
     curl : {0, 500}]

\* analyze_flow(flow, magnitude_threshold)
CallAnalyzeFlow ==
    /\ call = NoCall
    /\ \E flow \in FlowInputs, magnitude_threshold \in {250, 1000, 2000} :
         call' = [fn |-> "analyze_flow", args |-> <<flow, magnitude_threshold>>,
                  ret |-> analyze_flow(flow, magnitude_threshold)]
    /\ DetectIdle

\* is_scene_cut(prev_frame, curr_frame, hist_threshold, ssim_threshold), the
\* frames given by their histogram difference and their SSIM
CallIsSceneCut ==
    /\ call = NoCall
    /\ \E hist_diff \in {0, 100, 400, 401, 800, 1000},
          ssim \in {-200, 0, 100, 349, 350, 699, 700, 900, 989, 1000},
          hist_threshold \in {400, 800},
          ssim_threshold \in {350, 700, 990} :
         call' = [fn |-> "is_scene_cut",
                  args |-> <<hist_diff, ssim, hist_threshold, ssim_threshold>>,
                  ret |-> is_scene_cut(hist_diff, ssim, hist_threshold, ssim_threshold)]
    /\ DetectIdle

MaxHalf == 3

\* the halves of the window of directions: up to MaxHalf directions
HalfWindows ==
    UNION {[1..n -> {NONE, RIGHT, UP, LEFT}] : n \in 1..MaxHalf}

\* dominant_direction(d_list), in a process whose sets iterate in hash_order
CallDominantDirection ==
    /\ call = NoCall
    /\ \E d_list \in HalfWindows, hash_order \in {HashOrderA, HashOrderB} :
         call' = [fn |-> "dominant_direction", args |-> <<d_list, hash_order>>,
                  ret |-> dominant_direction(d_list, hash_order)]
    /\ DetectIdle

\* if duration < 0.1: continue, in ms
MinSegmentMs == 100

\* the loop of VideoSplitter.split from interval i on: stop_flag returns False
\* stop_after times and True from then on; a segment is listed whether ffmpeg
\* extracted it or not
RECURSIVE SplitFrom(_, _, _, _, _)
SplitFrom(timestamps, cuts, i, stop_after, segments) ==
    IF i > Len(timestamps) - 1 \/ i > stop_after THEN segments
    ELSE LET start == timestamps[i]
             end == timestamps[i + 1]
             duration == end - start
             seg_info == [index |-> i, start |-> start, end |-> end,
                          duration |-> duration,
                          cut_type |-> IF i <= Len(cuts) THEN cuts[i].type ELSE "fim"]
         IN IF duration < MinSegmentMs
            THEN SplitFrom(timestamps, cuts, i + 1, stop_after, segments)
            ELSE SplitFrom(timestamps, cuts, i + 1, stop_after,
                           Append(segments, seg_info))

\* timestamps = [0.0] + [cp["timestamp"] for cp in cut_points] + [total_duration]
SplitTimestamps(cuts, total_duration) ==
    <<0>> \o [i \in 1..Len(cuts) |-> cuts[i].timestamp] \o <<total_duration>>

\* VideoSplitter.split(input_path, cut_points, output_dir, ..., stop_flag), on a
\* video of total_duration ms
split(cuts, total_duration, stop_after) ==
    SplitFrom(SplitTimestamps(cuts, total_duration), cuts, 1, stop_after, <<>>)

MaxCuts == 2

\* cut events as split reads them: a timestamp in ms and a type
CutInfos == [timestamp : {50, 100, 250}, type : {"corte_de_cena", "parada"}]

\* the lists detect returns: up to MaxCuts events, timestamps increasing
SplitCuts ==
    {cuts \in UNION {[1..n -> CutInfos] : n \in 0..MaxCuts} :
       \A i \in 1..(Len(cuts) - 1) : cuts[i].timestamp < cuts[i + 1].timestamp}

\* split on a list detect returned
CallSplit ==
    /\ call = NoCall
    /\ \E cuts \in SplitCuts, total_duration \in {200, 300},
          stop_after \in 0..(MaxCuts + 1) :
         call' = [fn |-> "split", args |-> <<cuts, total_duration, stop_after>>,
                  ret |-> split(cuts, total_duration, stop_after)]
    /\ DetectIdle

CallsInit == Init /\ run = BaseRun

CallsNext ==
    \/ CallDetect
    \/ CallCutDetector
    \/ CallDetectMotionChange
    \/ CallAngleDifference
    \/ CallAngleToDirection8
    \/ CallAnalyzeFlow
    \/ CallIsSceneCut
    \/ CallDominantDirection
    \/ CallSplit

Calls == CallsInit /\ [][CallsNext]_vars

(***************************************************************************)
(* C13: on one stream and with the rest of the configuration equal, a run  *)
(* with a lower sensitivity never yields more cut events than a run with a *)
(* higher sensitivity.                                                     *)
(***************************************************************************)
C13_LowerSensitivityNeverMoreCuts ==
    call.fn = "detect" =>
        \A s \in Sensitivities :
            s < call.args[1] => Len(DetectOn(s, call.args[2])) <= Len(call.ret)

\* q is the quotient num / den to the thousandth below
IsQuotient(q, num, den) == q * den <= num * 1000 /\ num * 1000 < (q + 1) * den

(***************************************************************************)
(* C14: the detector holds magnitude_threshold / sensitivity,              *)
(* angle_change_threshold / sensitivity, histogram_threshold / sensitivity *)
(* and min(0.99, ssim_threshold * sensitivity), each to the thousandth     *)
(* below; stop_threshold, window_size, frame_skip and min_segment_duration *)
(* are the configured ones; sensitivity 0.5 gives twice the magnitude      *)
(* threshold of sensitivity 1.0.                                           *)
(***************************************************************************)
C14_ThresholdsScaledBySensitivity ==
    call.fn = "CutDetector" =>
        LET config == call.args[1]
            det == call.ret
            sens == config.sensitivity
        IN /\ IsQuotient(det.magnitude_threshold, config.magnitude_threshold, sens)
           /\ IsQuotient(det.angle_change_threshold, config.angle_change_threshold, sens)
           /\ IsQuotient(det.histogram_threshold, config.histogram_threshold, sens)
           /\ det.ssim_threshold <= 990
           /\ det.ssim_threshold * 1000 <= config.ssim_threshold * sens
           /\ \/ det.ssim_threshold = 990
              \/ config.ssim_threshold * sens < (det.ssim_threshold + 1) * 1000
           /\ det.stop_threshold = config.stop_threshold
           /\ det.window_size = config.window_size
           /\ det.frame_skip = config.frame_skip
           /\ det.min_segment_duration = config.min_segment_duration
           /\ (sens = 500 =>
                 det.magnitude_threshold =
                     2 * CutDetectorInit([config EXCEPT !.sensitivity = 1000])
                             .magnitude_threshold)

\* a detector whose SSIM threshold is capped, and one with half sensitivity
C14_Witness ==
    /\ call.fn = "CutDetector"
    /\ call.args[1].sensitivity = 1500
    /\ call.args[1].ssim_threshold = 700
    /\ call.ret.ssim_threshold = 990

(***************************************************************************)
(* C15: on full windows the rules of _detect_motion_change apply in order  *)
(* and the first that matches decides. Stop (first-half mean magnitude     *)
(* above 1.5 x the magnitude threshold, second-half mean below             *)
(* stop_threshold x the magnitude threshold) gives parada_<dominant        *)
(* direction of the first half> with confidence                            *)
(* min(1, first / (second + 0.1) / 8); Start (the halves exchanged) is     *)
(* reported only when Stop does not match; the angle shift only when       *)
(* neither matches; otherwise nothing changed and the confidence is 0.     *)
(***************************************************************************)
C15_MotionRulesInOrder ==
    call.fn = "_detect_motion_change" =>
        LET det == call.args[1]
            angles == call.args[2]
            mags == call.args[3]
            dirs == call.args[4]
            half == Len(mags) \div 2
            first == Mean(SubSeq(mags, 1, half))
            second == Mean(SubSeq(mags, half + 1, Len(mags)))
            dir_first == dominant_direction(SubSeq(dirs, 1, half), call.args[5])
            dir_second == dominant_direction(SubSeq(dirs, half + 1, Len(dirs)),
                                             call.args[5])
            diff == angle_difference(circular_mean(SubSeq(angles, 1, half)),
                                     circular_mean(SubSeq(angles, half + 1, Len(angles))))
            mt == det.magnitude_threshold
            moving(m) == m * 1000 > 1500 * mt
            still(m) == m * 1000 < det.stop_threshold * mt
            stop == moving(first) /\ still(second)
            start == still(first) /\ moving(second)
            shift == first > mt /\ second > mt /\ diff >= det.angle_change_threshold
        IN /\ stop =>
                call.ret = [changed |-> TRUE, type |-> "parada_" \o dir_first,
                            confidence |->
                                Min(1000, ((first * 1000) \div (second + 100)) \div 8)]
           /\ (~stop /\ start) =>
                call.ret = [changed |-> TRUE, type |-> "inicio_" \o dir_second,
                            confidence |->
                                Min(1000, ((second * 1000) \div (first + 100)) \div 8)]
           /\ (~stop /\ ~start /\ shift) =>
                call.ret = [changed |-> TRUE,
                            type |-> "mudança_" \o dir_first \o "_para_" \o dir_second,
                            confidence |-> Min(1000, (diff * 1000) \div 180000)]
           /\ (~stop /\ ~start /\ ~shift) =>
                call.ret = [changed |-> FALSE, type |-> "", confidence |-> 0]

\* windows on which both Stop and Start match, and Stop is reported
C15_Witness ==
    /\ call.fn = "_detect_motion_change"
    /\ call.args[1].stop_threshold = 2000
    /\ call.args[3] = <<1800, 1800>>
    /\ call.ret.type = "parada_" \o RIGHT

(***************************************************************************)
(* C16: angle_difference gives the same value for its arguments in either  *)
(* order, a value from 0 to 180 degrees, and 0 for an angle and itself.    *)
(***************************************************************************)
C16_AngleDifferenceSymmetricBounded ==
    call.fn = "angle_difference" =>
        /\ call.ret = angle_difference(call.args[2], call.args[1])
        /\ 0 <= call.ret
        /\ call.ret <= 180000
        /\ call.args[1] = call.args[2] => call.ret = 0

\* opposite angles: the difference reaches 180 degrees
C16_Witness ==
    /\ call.fn = "angle_difference"
    /\ call.args[1] < call.args[2]
    /\ call.ret = 180000

\* the eight compass directions, counter-clockwise from RIGHT
Compass == <<RIGHT, UP_RIGHT, UP, UP_LEFT, LEFT, DOWN_LEFT, DOWN, DOWN_RIGHT>>

(***************************************************************************)
(* C17: an angle of [0, 360) is given exactly one of the eight compass     *)
(* directions, never MIXED: the one of the sector of 45 degrees centred on *)
(* that direction, each boundary 22.5, 67.5, ..., 337.5 belonging to the   *)
(* sector that starts there.                                               *)
(***************************************************************************)
C17_EightSectorsLowerBoundInclusive ==
    call.fn = "_angle_to_direction_8" =>
        LET angle == call.args[1]
            sector == ((angle + 22500) \div 45000) % 8
        IN /\ call.ret = Compass[sector + 1]
           /\ Cardinality({i \in 1..8 : Compass[i] = call.ret}) = 1
           /\ call.ret /= MIXED

\* a boundary, given to the sector above it
C17_Witness ==
    /\ call.fn = "_angle_to_direction_8"
    /\ call.args[1] = 337500
    /\ call.ret = RIGHT

(***************************************************************************)
(* C18: for a flow field whose mean magnitude is below the threshold       *)
(* analyze_flow returns direction NONE, angle 0, angle_std 0 and neither   *)
(* zoom nor rotation, whatever the angles, divergence and curl of the      *)
(* field; and it returns direction NONE only for such a field.             *)
(***************************************************************************)
C18_NoneExactlyBelowThreshold ==
    call.fn = "analyze_flow" =>
        LET flow == call.args[1]
            motion == call.ret
        IN /\ flow.mag < call.args[2] =>
                /\ motion.direction = NONE
                /\ motion.angle_degrees = 0
                /\ motion.angle_std = 0
                /\ ~motion.is_divergent
                /\ ~motion.is_rotational
           /\ motion.direction = NONE => flow.mag < call.args[2]

\* a field below the threshold that diverges, rotates and has a mean angle
C18_Witness ==
    /\ call.fn = "analyze_flow"
    /\ call.args[1] = [mag |-> 999, angle |-> 100000, std |-> 30000,
                       score |-> 500, curl |-> 500]
    /\ call.args[2] = 1000
    /\ call.ret.direction = NONE

(***************************************************************************)
(* C19: is_scene_cut returns (False, 0) exactly when the histogram         *)
(* difference is not above its threshold and the SSIM is not below its     *)
(* threshold, as for two identical frames. When both fire the confidence   *)
(* is the mean of hist_diff / hist_threshold and                           *)
(* (1 - ssim) / (1 - ssim_threshold), at most 1; when the histogram alone  *)
(* fires it is the first ratio times 0.7; when the SSIM alone fires it is  *)
(* the second ratio times 0.6.                                             *)
(***************************************************************************)
C19_SceneCutCases ==
    call.fn = "is_scene_cut" =>
        LET hist_diff == call.args[1]
            ssim == call.args[2]
            hist_fires == hist_diff > call.args[3]
            ssim_fires == ssim < call.args[4]
            hist_ratio == (hist_diff * 1000) \div call.args[3]
            ssim_ratio == ((1000 - ssim) * 1000) \div (1000 - call.args[4])
        IN /\ (call.ret = [cut |-> FALSE, conf |-> 0]) <=> (~hist_fires /\ ~ssim_fires)
           /\ (hist_diff = 0 /\ ssim = 1000) => call.ret = [cut |-> FALSE, conf |-> 0]
           /\ (hist_fires /\ ssim_fires) =>
                /\ call.ret.cut
                /\ call.ret.conf <= 1000
                /\ \/ call.ret.conf = 1000
                   \/ call.ret.conf = (hist_ratio + ssim_ratio) \div 2
                /\ (hist_ratio + ssim_ratio) \div 2 >= 1000 => call.ret.conf = 1000
           /\ (hist_fires /\ ~ssim_fires) =>
                call.ret = [cut |-> TRUE, conf |-> (hist_ratio * 700) \div 1000]
           /\ (~hist_fires /\ ssim_fires) =>
                call.ret = [cut |-> TRUE, conf |-> (ssim_ratio * 600) \div 1000]

\* both signals fire and the mean of the ratios is clamped
C19_Witness ==
    /\ call.fn = "is_scene_cut"
    /\ call.args = <<800, 100, 400, 700>>
    /\ call.ret = [cut |-> TRUE, conf |-> 1000]

(***************************************************************************)
(* worker_threads.py: the loop of AnalysisWorker.run (detect_with_signal)  *)
(***************************************************************************)
\* The body of the loop of detect_with_signal from the successful read of
\* curr_frame on; d is the state of the loop with the cut_found signals emitted.
WorkerLoopBody(det, r, d, pos, sample) ==
    LET fn == d.frame_number + 1
        motion == analyze_flow(sample.flow, det.magnitude_threshold)
        angles == Append_maxlen(d.angle_window, motion.angle_degrees, det.window_size)
        mags == Append_maxlen(d.magnitude_window, motion.magnitude, det.window_size)
        dirs == Append_maxlen(d.direction_window, motion.direction, det.window_size)
        fps == FpsOf(r)
        min_frames == MinFramesBetweenCuts(det.min_segment_duration, fps)
        frames_since == fn - d.last_cut_frame
        change == detect_motion_change(det, angles, mags, dirs, r.hash_order)
        scene == is_scene_cut(sample.hist_diff, sample.ssim,
                              det.histogram_threshold, det.ssim_threshold)
        cand == Candidate([change |-> change, scene |-> scene])
        cut_info == [frame |-> fn, timestamp |-> Timestamp(fn, fps),
                     type |-> cand.cut_reason, confidence |-> cand.confidence,
                     angle |-> motion.angle_degrees, magnitude |-> motion.magnitude,
                     direction |-> motion.direction]
        advanced == [d EXCEPT !.frame_number = fn, !.angle_window = angles,
                              !.magnitude_window = mags, !.direction_window = dirs,
                              !.progress = Append(d.progress, fn), !.prev_frame = pos]
    IN IF frames_since >= min_frames /\ Len(mags) >= det.window_size
       THEN IF cand.cut_reason /= ""
            THEN [advanced EXCEPT
                    !.cut_points = Append(d.cut_points, cut_info),
                    !.last_cut_frame = fn,
                    !.angle_window = <<>>, !.magnitude_window = <<>>,
                    !.direction_window = <<>>,
                    !.cut_found = Append(d.cut_found, cut_info)]
            ELSE advanced
       ELSE advanced

\* the state of the loop of detect_with_signal after the first frame was read
WorkerStart ==
    [frame_number |-> 1, last_cut_frame |-> 0, cut_points |-> <<>>,
     angle_window |-> <<>>, magnitude_window |-> <<>>, direction_window |-> <<>>,
     prev_frame |-> 1, progress |-> <<>>, cut_found |-> <<>>]

\* one iteration of detect_with_signal whose reads all succeed
WorkerIteration(det, r, d, sample) ==
    WorkerLoopBody(det, r, [d EXCEPT !.frame_number = d.frame_number + det.frame_skip],
                   d.frame_number + det.frame_skip + 1, sample)

\* the loop of detect_with_signal over the stream that gives the samples
RECURSIVE WorkerRunFrom(_, _, _, _)
WorkerRunFrom(det, r, d, samples) ==
    IF samples = <<>> THEN d
    ELSE WorkerRunFrom(det, r, WorkerIteration(det, r, d, Head(samples)), Tail(samples))

WorkerRun(det, r, samples) == WorkerRunFrom(det, r, WorkerStart, samples)

(***************************************************************************)
(* C20: on the stream detect has analyzed, with the configuration of       *)
(* detect, the loop of AnalysisWorker.run holds the same list of cut       *)
(* events as detect, and has emitted cut_found once for each of them, in   *)
(* the order of the list.                                                  *)
(***************************************************************************)
C20_WorkerLoopYieldsSameEvents ==
    LET worker == WorkerRun(self, run, SamplesOf(analyzed))
    IN /\ worker.cut_points = cut_points
       /\ worker.cut_found = worker.cut_points

(***************************************************************************)
(* C21: the step that analyzes a frame less than min_frames_between_cuts   *)
(* frames after the last cut emits no cut and leaves the list of cuts and  *)
(* last_cut_frame as they are; the motion of the frame is appended to the  *)
(* three windows, progress is reported for it (when there is a sink) and   *)
(* the frame becomes the previous frame.                                   *)
(***************************************************************************)
C21_GatedFrameStillAdvances ==
    [][(Len(analyzed') > Len(analyzed)
          /\ frame_number' - last_cut_frame
               < (self.min_segment_duration * FpsOf(run)) \div 1000) =>
         LET motion == analyze_flow(Last(analyzed').sample.flow,
                                    self.magnitude_threshold)
         IN /\ cut_points' = cut_points
            /\ last_cut_frame' = last_cut_frame
            /\ angle_window' =
                  Append_maxlen(angle_window, motion.angle_degrees, self.window_size)
            /\ magnitude_window' =
                  Append_maxlen(magnitude_window, motion.magnitude, self.window_size)
            /\ direction_window' =
                  Append_maxlen(direction_window, motion.direction, self.window_size)
            /\ run.progress_callback => progress' = Append(progress, frame_number')
            /\ prev_frame' = Last(analyzed').pos]_vars

\* a frame whose sample alone would give a scene cut was held back by the gate
\* and is in the windows
C21_Witness ==
    /\ analyzed /= <<>>
    /\ LastGated
    /\ LastSignals.scene.cut
    /\ Len(cut_points) = 1
    /\ Len(magnitude_window) = 1
    /\ prev_frame = Last(analyzed).pos

\* the frames analyzed after frame number last
AnalyzedSince(frames, last) == {i \in 1..Len(frames) : frames[i].frame > last}

(***************************************************************************)
(* C22: a cut of a motion change (a parada, inicio or mudança type) is     *)
(* emitted only by a step at which the windows, the sample of the frame    *)
(* included, hold exactly window_size samples, so only when at least       *)
(* window_size frames have been analyzed since the previous cut or the     *)
(* start; on windows that are not full no motion change is reported.       *)
(***************************************************************************)
C22_MotionCutOnlyOnFullWindows ==
    /\ [][(CutEmitted /\ Last(cut_points').type /= "corte_de_cena") =>
            /\ Len(Append_maxlen(magnitude_window, 0, self.window_size))
                   = self.window_size
            /\ Cardinality(AnalyzedSince(analyzed', last_cut_frame))
                   >= self.window_size]_vars
    /\ []((analyzed /= <<>>
              /\ Len(BeforeLast.magnitude_window) + 1 < self.window_size)
            => ~LastSignals.change.changed)

\* a motion change was cut on windows of three samples
C22_Witness ==
    /\ self.window_size = 3
    /\ cut_points /= <<>>
    /\ Last(cut_points).type /= "corte_de_cena"
    /\ Last(cut_points).frame = Last(analyzed).frame

C24_DetectTerminatesAndReleases ==
    /\ <>Terminated
    /\ [][(pc = "skip" /\ pc' = "loop") => cap.pos' > cap.pos]_vars
    /\ [][(pc \in {"loop", "skip"} /\ pc' = "returned") =>
            (stopped' \/ cap.ended')]_vars
    /\ []((pc = "returned") => (cap.released /\ result = cut_points))

\* the loop was left because the frames ran out, with cuts to return
C24_Witness ==
    /\ pc = "returned"
    /\ cap.ended
    /\ ~stopped
    /\ cap.released
    /\ Len(result) >= 1
    /\ cap.pos = MaxFrames - 1

\* the index of the first occurrence of d in d_list
FirstIndex(d_list, d) ==
    CHOOSE i \in 1..Len(d_list) :
        d_list[i] = d /\ \A j \in 1..(i - 1) : d_list[j] /= d

(***************************************************************************)
(* C25: the dominant direction of a half-window is NONE when all its       *)
(* directions are NONE; otherwise it is a direction other than NONE that   *)
(* occurs in the half as often as any other, and among those of maximal    *)
(* count the one that occurs first in the buffer; so it is a function of   *)
(* the contents of the half alone.                                         *)
(***************************************************************************)
C25_DominantDirectionFirstInBuffer ==
    call.fn = "dominant_direction" =>
        LET d_list == call.args[1]
            moving == {d_list[i] : i \in 1..Len(d_list)} \ {NONE}
            best == {d \in moving : \A e \in moving : Count(d_list, e) <= Count(d_list, d)}
        IN IF moving = {} THEN call.ret = NONE
           ELSE /\ call.ret \in best
                /\ \A e \in best : FirstIndex(d_list, call.ret) <= FirstIndex(d_list, e)
                /\ \A hash_order \in {HashOrderA, HashOrderB} :
                     dominant_direction(d_list, hash_order) = call.ret

(***************************************************************************)
(* C26: every cut is at least int(min_segment_duration * fps) frames after *)
(* the cut before it, the first cut at least that many frames after frame  *)
(* 0; so no cut of any type is on a frame with a lower index than that.    *)
(***************************************************************************)
C26_CutsSpacedInFrames ==
    LET gap == (self.min_segment_duration * FpsOf(run)) \div 1000
    IN \A i \in 1..Len(cut_points) :
         /\ cut_points[i].frame
              - (IF i = 1 THEN 0 ELSE cut_points[i - 1].frame) >= gap
         /\ cut_points[i].frame >= gap

\* two cuts exactly the least number of frames apart
C26_Witness ==
    /\ MinFrames >= 2
    /\ Len(cut_points) >= 2
    /\ cut_points[2].frame - cut_points[1].frame = MinFrames

\* the directions other than NONE
Moving ==
    {RIGHT, LEFT, UP, DOWN, UP_RIGHT, UP_LEFT, DOWN_RIGHT, DOWN_LEFT, ZOOM_IN,
     ZOOM_OUT, ROTATION, MIXED}

\* the types of a motion change that name directions other than NONE only
MovingTypes ==
    {"parada_" \o d : d \in Moving} \cup {"inicio_" \o d : d \in Moving}
        \cup {"mudança_" \o d \o "_para_" \o e : d \in Moving, e \in Moving}

(***************************************************************************)
(* C27: on windows whose samples are results of analyze_flow with the      *)
(* magnitude threshold of the detector, a motion change never names the    *)
(* direction NONE (parado): not as the direction of a Stop, of a Start, or *)
(* on either side of an angle shift.                                       *)
(***************************************************************************)
C27_MotionCutNeverNamesNone ==
    (call.fn = "_detect_motion_change" /\ call.ret.changed) =>
        call.ret.type \in MovingTypes

\* a Stop whose second half is all NONE
C27_Witness ==
    /\ call.fn = "_detect_motion_change"
    /\ call.args[4] = <<RIGHT, UP, NONE, NONE>>
    /\ call.ret.changed
    /\ call.ret.type = "parada_" \o RIGHT

(***************************************************************************)
(* main_window.py and worker_threads.py: the window and its analysis       *)
(* workers                                                                 *)
(*                                                                         *)
(* A third specification. The window runs its handlers one at a time on    *)
(* its thread; each AnalysisWorker runs on a thread of its own and its     *)
(* signals reach the window through the event queue of the window's        *)
(* thread, in the order they were emitted. What a worker finds on a frame  *)
(* (a cut or none, the end of the source, an exception) is a choice; a cut *)
(* is given by the index of its frame.                                     *)
(***************************************************************************)
\* Most frames the workers analyze, all together.
MaxIter == 3

\* detect and the functions are not called
DetectorIdle ==
    UNCHANGED <<call, run, pc, cap, frame_number, last_cut_frame, cut_points,
                angle_window, magnitude_window, direction_window, prev_frame, skip_i,
                progress, polled, stopped, analyzed, result, error>>

\* QThread.isRunning()
IsRunning(w) == workers[w].state = "running"

Signal(kind, payload) == [kind |-> kind, payload |-> payload]

\* signal.emit(payload) from the thread of worker w, for each signal of sigs,
\* the worker going on as after
EmitAndGoOn(w, after, sigs) ==
    /\ workers' = [workers EXCEPT
                     ![w] = [after EXCEPT !.emitted = workers[w].emitted \o sigs]]
    /\ queue' = queue \o [i \in 1..Len(sigs) |->
                             [sender |-> w, kind |-> sigs[i].kind,
                              payload |-> sigs[i].payload]]

\* run returns: the thread ends
Exited(w) == [workers[w] EXCEPT !.state = "exited", !.pc = "done"]

\* cut_points = detect_with_signal(self.video_path); self.finished.emit(cut_points)
Finished(w, cuts) == EmitAndGoOn(w, Exited(w), <<Signal("finished", cuts)>>)

\* except Exception as e: self.error.emit(...)
Failed(w) == EmitAndGoOn(w, Exited(w), <<Signal("error", <<>>)>>)

\* detect_with_signal up to the loop: the source does not open (ValueError), gives
\* no first frame (return []), or gives one
WorkerOpen(w) ==
    /\ IsRunning(w)
    /\ workers[w].pc = "open"
    /\ \E outcome \in {"opened", "not_opened", "no_frame"} :
         CASE outcome = "opened" ->
                EmitAndGoOn(w, [workers[w] EXCEPT !.pc = "head"], <<>>)
           [] outcome = "not_opened" -> Failed(w)
           [] outcome = "no_frame" -> Finished(w, <<>>)
    /\ UNCHANGED <<btn_analyze, btn_stop, btn_export, analysis_worker, window_cut_points>>
    /\ DetectorIdle

\* A faulty variant of WorkerHead: the loop does not look at the stop flag.
WorkerHead_ignores_stop(w) ==
    /\ IsRunning(w)
    /\ workers[w].pc = "head"
    /\ EmitAndGoOn(w, [workers[w] EXCEPT !.pc = "body"], <<>>)
    /\ UNCHANGED <<btn_analyze, btn_stop, btn_export, analysis_worker, window_cut_points>>
    /\ DetectorIdle

\* while True: if self._stop: break
WorkerHead(w) ==
    /\ IsRunning(w)
    /\ workers[w].pc = "head"
    /\ IF workers[w].stop
       THEN Finished(w, workers[w].local_cuts)
       ELSE EmitAndGoOn(w, [workers[w] EXCEPT !.pc = "body"], <<>>)
    /\ UNCHANGED <<btn_analyze, btn_stop, btn_export, analysis_worker, window_cut_points>>
    /\ DetectorIdle

\* the frames the workers have analyzed, all together
RECURSIVE FramesOf(_)
FramesOf(w) == IF w = 0 THEN 0 ELSE workers[w].frame + FramesOf(w - 1)

FramesAnalyzed == FramesOf(MaxWorkers)

\* the rest of an iteration: the read fails (break), an exception is raised, or
\* the frame is analyzed: progress and analysis_frame are emitted, and cut_found
\* with the cut appended to local_cuts if the frame is a cut
WorkerBody(w) ==
    /\ IsRunning(w)
    /\ workers[w].pc = "body"
    /\ \E outcome \in (IF FramesAnalyzed < MaxIter
                        THEN {"cut", "no_cut", "end", "raise"} ELSE {"end"}) :
         LET fn == workers[w].frame + 2
             seen == [workers[w] EXCEPT
                        !.pc = "head", !.frame = workers[w].frame + 1,
                        !.after_stop = IF workers[w].stop THEN workers[w].after_stop + 1
                                       ELSE workers[w].after_stop]
         IN CASE outcome = "end" -> Finished(w, workers[w].local_cuts)
              [] outcome = "raise" -> Failed(w)
              [] outcome = "no_cut" ->
                   EmitAndGoOn(w, seen,
                               <<Signal("progress", fn), Signal("analysis_frame", fn)>>)
              [] outcome = "cut" ->
                   EmitAndGoOn(w, [seen EXCEPT !.local_cuts = Append(seen.local_cuts, fn)],
                               <<Signal("progress", fn), Signal("analysis_frame", fn),
                                 Signal("cut_found", fn)>>)
    /\ UNCHANGED <<btn_analyze, btn_stop, btn_export, analysis_worker, window_cut_points>>
    /\ DetectorIdle

\* the workers created so far
Created == {w \in 1..MaxWorkers : workers[w].state /= "none"}

\* MainWindow._start_analysis, on a click of btn_analyze
StartAnalysis ==
    /\ btn_analyze
    /\ Cardinality(Created) < MaxWorkers
    /\ LET w == Cardinality(Created) + 1
       IN /\ analysis_worker' = w
          /\ workers' = [workers EXCEPT ![w] = [NoWorker EXCEPT !.state = "running"]]
    /\ btn_analyze' = FALSE
    /\ btn_stop' = TRUE
    /\ btn_export' = FALSE
    /\ window_cut_points' = <<>>
    /\ queue' = queue
    /\ DetectorIdle

\* MainWindow._stop_all, on a click of btn_stop
StopAll ==
    /\ btn_stop
    /\ workers' = IF analysis_worker /= 0 /\ IsRunning(analysis_worker)
                  THEN [workers EXCEPT ![analysis_worker].stop = TRUE]
                  ELSE workers
    /\ btn_analyze' = TRUE
    /\ btn_stop' = FALSE
    /\ btn_export' = (window_cut_points /= <<>>)
    /\ UNCHANGED <<analysis_worker, queue, window_cut_points>>
    /\ DetectorIdle

\* the thread of the window takes the next signal from its queue and runs the
\* slot connected to it: _on_cut_found, _on_analysis_finished, _on_error,
\* _on_export_finished, _on_analysis_progress or _on_analysis_frame
OnSignal ==
    /\ queue /= <<>>
    /\ queue' = Tail(queue)
    /\ LET sig == Head(queue)
       IN CASE sig.kind = "cut_found" ->
                 /\ window_cut_points' =
                       Append(window_cut_points,
                              [worker |-> sig.sender, frame |-> sig.payload])
                 /\ UNCHANGED <<btn_analyze, btn_stop, btn_export>>
            [] sig.kind = "finished" ->
                 /\ window_cut_points' =
                       [i \in 1..Len(sig.payload) |->
                          [worker |-> sig.sender, frame |-> sig.payload[i]]]
                 /\ btn_analyze' = TRUE
                 /\ btn_stop' = FALSE
                 /\ btn_export' = TRUE
            [] sig.kind \in {"error", "export_finished"} ->
                 /\ btn_analyze' = TRUE
                 /\ btn_stop' = FALSE
                 /\ btn_export' = (window_cut_points /= <<>>)
                 /\ window_cut_points' = window_cut_points
            [] OTHER ->
                 UNCHANGED <<btn_analyze, btn_stop, btn_export, window_cut_points>>
    /\ UNCHANGED <<analysis_worker, workers>>
    /\ DetectorIdle

\* cut_info of the cut a worker found on a frame
CutInfoOf(frame) ==
    [timestamp |-> Timestamp(frame, run.fps), type |-> "corte_de_cena"]

\* the duration of the video: the timestamp of the frame after the last one a
\* worker can analyze
VideoDuration == Timestamp(MaxIter + 2, run.fps)

\* MainWindow._start_export, on a click of btn_export, and the run of the
\* ExportWorker it starts, once in a behaviour: split works on the list of cuts
\* of the window; a later click on Stop shows as the call of stop_flag that
\* returns True; the finished signal reaches the window through its queue
StartExport ==
    /\ btn_export
    /\ call = NoCall
    /\ \E stop_after \in 0..(Len(window_cut_points) + 1) :
         LET cuts == [i \in 1..Len(window_cut_points) |->
                        CutInfoOf(window_cut_points[i].frame)]
             segments == split(cuts, VideoDuration, stop_after)
         IN /\ call' = [fn |-> "split", args |-> <<cuts, VideoDuration, stop_after>>,
                        ret |-> segments]
            /\ queue' = Append(queue, [sender |-> 0, kind |-> "export_finished",
                                       payload |-> Len(segments)])
    /\ btn_analyze' = FALSE
    /\ btn_export' = FALSE
    /\ btn_stop' = TRUE
    /\ UNCHANGED <<analysis_worker, workers, window_cut_points>>
    /\ UNCHANGED <<run, pc, cap, frame_number, last_cut_frame, cut_points,
                   angle_window, magnitude_window, direction_window, prev_frame,
                   skip_i, progress, polled, stopped, analyzed, result, error>>

GuiInit == Init /\ run = BaseRun

GuiNext ==
    \/ StartAnalysis
    \/ StopAll
    \/ OnSignal
    \/ StartExport
    \/ \E w \in 1..MaxWorkers : WorkerOpen(w)
    \/ \E w \in 1..MaxWorkers : WorkerHead(w)
    \/ \E w \in 1..MaxWorkers : WorkerBody(w)

Gui == GuiInit /\ [][GuiNext]_vars

(***************************************************************************)
(* C28: at most one AnalysisWorker is running at any time, whatever the    *)
(* order of the clicks on Analyze and Stop and of the steps of the         *)
(* workers; and every event in the list of cuts of the window is from the  *)
(* worker started last, never from an older run.                           *)
(***************************************************************************)
C28_AtMostOneWorkerRunning ==
    /\ Cardinality({w \in 1..MaxWorkers : IsRunning(w)}) <= 1
    /\ \A i \in 1..Len(window_cut_points) :
         window_cut_points[i].worker = analysis_worker

(***************************************************************************)
(* One run of an AnalysisWorker: the window starts one analysis and may    *)
(* stop it. The thread of the worker is scheduled: a step it can take is   *)
(* taken.                                                                  *)
(***************************************************************************)
StartFirstAnalysis == Created = {} /\ StartAnalysis

OneRunNext ==
    \/ StartFirstAnalysis
    \/ StopAll
    \/ OnSignal
    \/ WorkerOpen(1)
    \/ WorkerHead(1)
    \/ WorkerBody(1)

OneRun ==
    /\ GuiInit
    /\ [][OneRunNext]_vars
    /\ WF_vars(WorkerOpen(1) \/ WorkerHead(1) \/ WorkerBody(1))

\* the places in the signals emitted by worker w of those of the given kinds
Places(w, kinds) ==
    {i \in 1..Len(workers[w].emitted) : workers[w].emitted[i].kind \in kinds}

\* the payloads of the cut_found signals among emitted, in order
RECURSIVE CutsFound(_)
CutsFound(emitted) ==
    IF emitted = <<>> THEN <<>>
    ELSE IF Head(emitted).kind = "cut_found"
         THEN <<Head(emitted).payload>> \o CutsFound(Tail(emitted))
         ELSE CutsFound(Tail(emitted))

(***************************************************************************)
(* C29: a run of an AnalysisWorker ends, and has then emitted exactly one  *)
(* terminal signal, finished or error; before it ends it has emitted none. *)
(* The terminal signal is the last signal of the run; a finished signal    *)
(* carries the payloads of the cut_found signals of the run, in order; and *)
(* the worker analyzes at most one frame after stop() was called.          *)
(***************************************************************************)
C29_OneTerminalSignalLast ==
    /\ [](\A w \in Created :
            LET terminal == Places(w, {"finished", "error"})
                emitted == workers[w].emitted
            IN /\ Cardinality(terminal) = IF IsRunning(w) THEN 0 ELSE 1
               /\ \A i \in terminal :
                    /\ i = Len(emitted)
                    /\ emitted[i].kind = "finished" =>
                         emitted[i].payload = CutsFound(emitted)
               /\ workers[w].after_stop <= 1)
    /\ (IsRunning(1) ~> (workers[1].state = "exited"))

\* a worker stopped in the middle of a frame that is a cut: it finished the
\* frame, emitted the cut and then finished with it
C29_Witness ==
    /\ workers[1].state = "exited"
    /\ workers[1].stop
    /\ workers[1].after_stop = 1
    /\ Len(workers[1].emitted) = 4
    /\ workers[1].emitted[4] = Signal("finished", <<2>>)

\* the places in the list of intervals that split looked at before stop_flag
\* returned True
Examined(cuts, stop_after) ==
    {i \in 1..(Len(cuts) + 1) : i <= stop_after}

(***************************************************************************)
(* C30: the segments split returns are intervals of consecutive members of *)
(* [0, the timestamps of the cuts..., the duration of the video], in       *)
(* increasing order of their starts; each is at least 0.1 s long, and each *)
(* interval examined before stop_flag returned True that is at least 0.1 s *)
(* long is returned; there are at most len(cut_points)+1 of them; segment  *)
(* i carries the type of cut_points[i-1], the last interval carries "fim". *)
(***************************************************************************)
C30_SegmentsInIncreasingStartOrder ==
    call.fn = "split" =>
      LET cuts == call.args[1]
          timestamps == SplitTimestamps(cuts, call.args[2])
          examined == Examined(cuts, call.args[3])
          segments == call.ret
      IN /\ Len(segments) <= Len(cuts) + 1
         /\ \A k \in 1..Len(segments) :
              LET seg == segments[k]
              IN /\ seg.index \in examined
                 /\ seg.start = timestamps[seg.index]
                 /\ seg.end = timestamps[seg.index + 1]
                 /\ seg.end - seg.start >= MinSegmentMs
                 /\ seg.cut_type = IF seg.index <= Len(cuts)
                                   THEN cuts[seg.index].type ELSE "fim"
         /\ \A i \in examined :
              timestamps[i + 1] - timestamps[i] >= MinSegmentMs =>
                \E k \in 1..Len(segments) : segments[k].index = i
         /\ \A k \in 1..(Len(segments) - 1) :
              /\ segments[k].index < segments[k + 1].index
              /\ segments[k].start < segments[k + 1].start

====
